---- MODULE Spec2Model ----
(***************************************************************************)
(* A model of automate.py: the batch tool that, for every configured       *)
(* repository, pushes the workflow files, uploads the secrets and updates  *)
(* the workflow permissions.                                               *)
(*                                                                         *)
(* Five specifications share the module:                                   *)
(*   Spec        main() driving process_repository over repo_urls          *)
(*   SpecRepo    the same, over one repository and more secrets            *)
(*   SpecLocator extract_repo_info applied to bounded references           *)
(*   SpecBranch  get_default_branch applied to every probe outcome         *)
(*   SpecPush    the workflow-push stage run twice against one remote      *)
(***************************************************************************)
EXTENDS Integers, Sequences, FiniteSets, TLC

VARIABLES
    \* ---- main() and process_repository ----
    pc,               \* position of the single thread of control
    GITHUB_TOKEN,     \* TRUE iff os.getenv('GITHUB_TOKEN') is set
    workflows_dir,    \* TRUE iff os.path.exists('.github/workflows')
    nacl_installed,   \* TRUE iff "from nacl import ..." succeeds
    repo_urls,        \* the configured list of references
    SECRETS_TO_ADD,   \* secret name -> configured value
    i,                \* enumerate(repo_urls, 1) index of the current iteration
    target,           \* (owner, repo) of the repository being processed
    result,           \* the dict process_repository is building / returned
    sidx,             \* position of the secrets loop in SECRETS_TO_ADD.items()
    calls,            \* API requests and clones of the current process_repository
    check,            \* what the existence check of the current call met
    secret_response,  \* what the latest create_or_update_secret met
    results,          \* main's result log
    successful_repos, \* main's counter
    started,          \* indices on which process_repository was invoked
    pauses,           \* indices after which time.sleep(2) ran
    exit_status,      \* <<>> while running, <<code>> once the process ended
    \* ---- extract_repo_info on its own ----
    loc_url, loc_result, loc_pc,
    \* ---- get_default_branch on its own ----
    br_probe, br_result, br_pc,
    \* ---- the workflow-push stage run twice ----
    remote, source, run, runs

mainVars == <<pc, GITHUB_TOKEN, workflows_dir, nacl_installed, repo_urls,
              SECRETS_TO_ADD, i, target, result, sidx, calls, check,
              secret_response, results, successful_repos, started, pauses, exit_status>>
locVars == <<loc_url, loc_result, loc_pc>>
brVars == <<br_probe, br_result, br_pc>>
pushVars == <<remote, source, run, runs>>
vars == <<mainVars, locVars, brVars, pushVars>>

(***************************************************************************)
(* Strings.  A reference is a sequence of pieces; a piece is a run of      *)
(* characters that holds no '/' (or is the '/' itself).  The https prefix  *)
(* "https://github.com/" is five pieces, the ssh prefix one.               *)
(***************************************************************************)
HttpsPrefix == <<"https:", "/", "/", "github.com", "/">>
SshPrefix == <<"git@github.com:">>
GitSuffix == ".git"

\* The tokens references are drawn from, and their spelling in pieces.
Tokens == {"H", "S", "/", "a", "b", ".git"}

Spell(tok) ==
    IF tok = "H" THEN HttpsPrefix
    ELSE IF tok = "S" THEN SshPrefix
    ELSE <<tok>>

RECURSIVE SpellAll(_)
SpellAll(toks) ==
    IF toks = <<>> THEN <<>>
    ELSE Spell(Head(toks)) \o SpellAll(Tail(toks))

\* str.endswith / str.startswith
EndsWith(s, piece) == Len(s) > 0 /\ s[Len(s)] = piece
StartsWith(s, p) == Len(s) >= Len(p) /\ SubSeq(s, 1, Len(p)) = p

\* str.replace(p, ''): every non-overlapping occurrence, left to right.
RECURSIVE ReplaceAll(_, _)
ReplaceAll(s, p) ==
    IF s = <<>> THEN <<>>
    ELSE IF StartsWith(s, p) THEN ReplaceAll(SubSeq(s, Len(p) + 1, Len(s)), p)
    ELSE <<Head(s)>> \o ReplaceAll(Tail(s), p)

\* str.split('/'): the segments between the separators; '' splits to [''].
RECURSIVE SplitFrom(_, _)
SplitFrom(s, cur) ==
    IF s = <<>> THEN <<cur>>
    ELSE IF Head(s) = "/" THEN <<cur>> \o SplitFrom(Tail(s), <<>>)
    ELSE SplitFrom(Tail(s), Append(cur, Head(s)))

Split(s) == SplitFrom(s, <<>>)

ValueError == [kind |-> "ValueError", owner |-> <<>>, repo |-> <<>>]

extract_repo_info(repo_url) ==
    LET u == IF EndsWith(repo_url, GitSuffix)
             THEN SubSeq(repo_url, 1, Len(repo_url) - 1) ELSE repo_url
        known == StartsWith(u, HttpsPrefix) \/ StartsWith(u, SshPrefix)
        parts == IF StartsWith(u, HttpsPrefix) THEN Split(ReplaceAll(u, HttpsPrefix))
                 ELSE Split(ReplaceAll(u, SshPrefix))
    IN  IF ~known THEN ValueError
        ELSE IF Len(parts) # 2 THEN ValueError
        ELSE [kind |-> "pair", owner |-> parts[1], repo |-> parts[2]]

(***************************************************************************)
(* get_default_branch.  A probe outcome gives, for each git command the    *)
(* function may run, what that command would answer:                       *)
(*   current  git branch --show-current: exit status zero?, stripped stdout*)
(*   head     git symbolic-ref refs/remotes/origin/HEAD: exit status zero?,*)
(*            the '/'-separated components of its stripped stdout          *)
(*   main, master  git show-ref --verify refs/heads/<name> exits zero?     *)
(***************************************************************************)
Last(s) == s[Len(s)]

get_default_branch(p) ==
    IF ~p.current.ok THEN "main"                \* check=True raised: bare except
    ELSE IF p.current.out # "" THEN p.current.out
    ELSE IF p.head.ok THEN Last(p.head.ref)
    ELSE IF p.main THEN "main"
    ELSE IF p.master THEN "master"
    ELSE "main"

(***************************************************************************)
(* push_workflows.  o gives the outcome of each step that can fail:        *)
(*   copy      makedirs/listdir/copy2 raise nothing                        *)
(*   add       git add exits zero                                          *)
(*   diff_empty  git diff --cached --quiet exits zero (nothing staged)     *)
(*   commit    git commit exits zero                                       *)
(*   push      git push origin <default branch> exits zero                 *)
(* The answer is what the function returns ("True", "False") or "raise"    *)
(* when an exception other than CalledProcessError leaves it, with the git *)
(* commands it ran.                                                        *)
(***************************************************************************)
\* push_workflows without the short-circuit on an empty staged diff.
push_workflows_always_commit(o) ==
    IF ~o.copy THEN [ret |-> "raise", cmds |-> <<>>]
    ELSE IF ~o.add THEN [ret |-> "False", cmds |-> <<"add">>]
    ELSE IF ~o.commit THEN [ret |-> "False", cmds |-> <<"add", "diff", "commit">>]
    ELSE IF ~o.push
         THEN [ret |-> "False", cmds |-> <<"add", "diff", "commit", "push">>]
    ELSE [ret |-> "True", cmds |-> <<"add", "diff", "commit", "push">>]

push_workflows(o) ==
    IF ~o.copy THEN [ret |-> "raise", cmds |-> <<>>]
    ELSE IF ~o.add THEN [ret |-> "False", cmds |-> <<"add">>]
    ELSE IF o.diff_empty THEN [ret |-> "True", cmds |-> <<"add", "diff">>]
    ELSE IF ~o.commit THEN [ret |-> "False", cmds |-> <<"add", "diff", "commit">>]
    ELSE IF ~o.push
         THEN [ret |-> "False", cmds |-> <<"add", "diff", "commit", "push">>]
    ELSE [ret |-> "True", cmds |-> <<"add", "diff", "commit", "push">>]

Err(msg, arg) == [msg |-> msg, arg |-> arg]

(***************************************************************************)
(* The workflow stage of process_repository: the clone and push_workflows  *)
(* inside the scratch directory, with the inner try/except.  It answers    *)
(* workflows_pushed, the entries appended to errors and the git commands   *)
(* run.  info: what clone_repo's own extract_repo_info(repo_url) answers;  *)
(* o.clone: git clone exits zero.                                          *)
(***************************************************************************)
WorkflowStage(info, o) ==
    IF info.kind = "ValueError"
    THEN [workflows_pushed |-> FALSE, cmds |-> <<>>,
          errors |-> <<Err("Failed to process workflows", "")>>]
    ELSE IF ~o.clone
    THEN [workflows_pushed |-> FALSE, cmds |-> <<"clone">>,
          errors |-> <<Err("Failed to process workflows", "")>>]
    ELSE LET r == push_workflows(o)
         IN  IF r.ret = "raise"
             THEN [workflows_pushed |-> FALSE, cmds |-> <<"clone">> \o r.cmds,
                   errors |-> <<Err("Failed to process workflows", "")>>]
             ELSE IF r.ret = "False"
             THEN [workflows_pushed |-> FALSE, cmds |-> <<"clone">> \o r.cmds,
                   errors |-> <<Err("Failed to push workflows", "")>>]
             ELSE [workflows_pushed |-> TRUE, cmds |-> <<"clone">> \o r.cmds,
                   errors |-> <<>>]

\* Every outcome of the stage's steps; a step that is not reached (an earlier
\* one failed) is listed once, as succeeding.
StageOutcomes ==
    { o \in [clone : BOOLEAN, copy : BOOLEAN, add : BOOLEAN, diff_empty : BOOLEAN,
             commit : BOOLEAN, push : BOOLEAN] :
        /\ ~o.clone => o.copy
        /\ ~o.copy => o.add
        /\ ~o.add => ~o.diff_empty
        /\ o.diff_empty => o.commit
        /\ ~o.commit => o.push }

(***************************************************************************)
(* Configuration and the outcomes of the hosting API.                      *)
(***************************************************************************)
\* How many entries repo_urls holds.
MaxRepos == 2

\* How many of the entries of SECRETS_TO_ADD the model keeps: under Spec,
\* and under SpecRepo.
MaxSecrets == 2
MaxSecretsOne == 3

\* The references repo_urls is drawn from: a well-formed one and one with an
\* unknown prefix.
UrlSamples ==
    { SpellAll(<<"S", "a", "/", "b", ".git">>),
      SpellAll(<<"a", "/", "b">>) }

\* SECRETS_TO_ADD.items(), in the dict's insertion order.
AllSecretNames ==
    <<"AWS_ACCESS_KEY_ID", "AWS_SECRET_ACCESS_KEY", "AWS_REGION",
      "AWS_BEDROCK_MODEL_ID">>

FirstNames(n) ==
    {AllSecretNames[k] : k \in 1..(IF n < Len(AllSecretNames) THEN n
                                   ELSE Len(AllSecretNames))}

IsConfigured(secret_name) == secret_name \in DOMAIN SECRETS_TO_ADD

\* The names the secrets loop visits, in order.
SecretNames == SelectSeq(AllSecretNames, IsConfigured)

\* os.getenv answers None or a string; None and '' are both falsy.
SecretValues == {"None", "", "v"}

Truthy(value) == value # "None" /\ value # ""

\* The response statuses each request is taken to answer with.
RepoStatuses == {200, 403, 404}
KeyStatuses == {200, 404}
SecretStatuses == {200, 201, 204, 422}
PermissionStatuses == {200, 204, 403}

Call(op, arg) == [op |-> op, arg |-> arg]

IsClone(cmd) == cmd = "clone"

GitCalls(cmds) == [k \in 1..Len(cmds) |-> Call(cmds[k], "")]

NoResult == [repo |-> <<>>, status |-> "none"]

NoCheck == [called |-> FALSE, raised |-> FALSE, status |-> 0]

NoResponse ==
    [name |-> "", key_status |-> 0, seal |-> FALSE, raised |-> FALSE, status |-> 0]

ErrorResult(repo_url, message) ==
    [repo |-> repo_url, status |-> "error", message |-> message]

\* check_repo_exists taking every response for a reachable repository.
check_repo_exists_any(status) == TRUE

check_repo_exists(status) == status = 200

\* The test of the upsert response in create_or_update_secret.
secret_response_ok(status) == status \in {201, 204}

permissions_response_ok(status) == status \in {200, 204}

\* The final status of a reachable repository that ignores the errors list.
final_status_always_success(errors) == "success"

final_status(errors) == IF errors # <<>> THEN "partial" ELSE "success"

(***************************************************************************)
(* Init: the state when the interpreter starts the script.                 *)
(***************************************************************************)
InitLocatorIdle == loc_url = <<>> /\ loc_result = ValueError /\ loc_pc = "idle"

NoProbe ==
    [current |-> [ok |-> FALSE, out |-> ""],
     head |-> [ok |-> FALSE, ref |-> <<"">>], main |-> FALSE, master |-> FALSE]

InitBranchIdle == br_probe = NoProbe /\ br_result = "" /\ br_pc = "idle"

InitPushIdle ==
    /\ remote = [head |-> "main", tree |-> <<>>]
    /\ source = <<>>
    /\ run = 0
    /\ runs = <<>>

InitMain ==
    /\ pc = "import"
    /\ GITHUB_TOKEN \in BOOLEAN
    /\ workflows_dir \in BOOLEAN
    /\ nacl_installed \in BOOLEAN
    /\ repo_urls \in [1..MaxRepos -> UrlSamples]
    /\ SECRETS_TO_ADD \in [FirstNames(MaxSecrets) -> SecretValues]
    /\ i = 1
    /\ target = ValueError
    /\ result = NoResult
    /\ sidx = 1
    /\ calls = <<>>
    /\ check = NoCheck
    /\ secret_response = NoResponse
    /\ results = <<>>
    /\ successful_repos = 0
    /\ started = <<>>
    /\ pauses = <<>>
    /\ exit_status = <<>>

Init == InitMain /\ InitLocatorIdle /\ InitBranchIdle /\ InitPushIdle

otherVars == <<locVars, brVars, pushVars>>
config == <<GITHUB_TOKEN, workflows_dir, nacl_installed, repo_urls, SECRETS_TO_ADD>>
log == <<results, successful_repos, pauses>>

\* The module-level check of the token: unset, the process ends with status 1.
TokenCheck ==
    /\ pc = "import"
    /\ IF ~GITHUB_TOKEN
       THEN pc' = "exited" /\ exit_status' = <<1>>
       ELSE pc' = "main" /\ exit_status' = exit_status
    /\ UNCHANGED <<config, i, target, result, sidx, calls, check, secret_response,
                   log, started, otherVars>>

\* main: the workflows directory is validated, the log and the counter start.
ValidateWorkflowsDir ==
    /\ pc = "main"
    /\ IF ~workflows_dir
       THEN /\ pc' = "exited" /\ exit_status' = <<1>>
            /\ UNCHANGED log
       ELSE /\ pc' = "loop" /\ exit_status' = exit_status
            /\ results' = <<>>
            /\ successful_repos' = 0
            /\ pauses' = pauses
    /\ UNCHANGED <<config, i, target, result, sidx, calls, check, secret_response,
                   started, otherVars>>

\* main's for loop takes the next reference and calls process_repository.
CallProcessRepository ==
    /\ pc = "loop"
    /\ i <= Len(repo_urls)
    /\ pc' = "extract"
    /\ started' = Append(started, i)
    /\ result' = NoResult
    /\ target' = ValueError
    /\ calls' = <<>>
    /\ check' = NoCheck
    /\ secret_response' = NoResponse
    /\ sidx' = 1
    /\ UNCHANGED <<config, i, log, exit_status, otherVars>>

\* process_repository: owner, repo = self.extract_repo_info(repo_url)
ExtractStep ==
    /\ pc = "extract"
    /\ LET r == extract_repo_info(repo_urls[i])
       IN  IF r.kind = "ValueError"
           THEN /\ result' = ErrorResult(repo_urls[i], "Invalid GitHub URL format")
                /\ pc' = "returned"
                /\ target' = target
           ELSE /\ target' = r
                /\ pc' = "check"
                /\ result' = result
    /\ UNCHANGED <<config, i, sidx, calls, check, secret_response, log, started,
                   exit_status, otherVars>>

\* process_repository: the existence check and the fresh result dict.
CheckStep ==
    /\ pc = "check"
    /\ \E raised \in BOOLEAN, status \in RepoStatuses :
         /\ calls' = Append(calls, Call("GET repo", ""))
         /\ check' = [called |-> TRUE, raised |-> raised,
                       status |-> IF raised THEN 0 ELSE status]
         /\ IF raised
            THEN /\ result' = ErrorResult(repo_urls[i], "exception")
                 /\ pc' = "returned"
            ELSE IF ~check_repo_exists(status)
            THEN /\ result' = ErrorResult(repo_urls[i],
                                  "Repository not found or not accessible")
                 /\ pc' = "returned"
            ELSE /\ result' = [repo |-> repo_urls[i], status |-> "success",
                               workflows_pushed |-> FALSE, secrets_added |-> <<>>,
                               permissions_updated |-> FALSE, errors |-> <<>>]
                 /\ pc' = "workflows"
    /\ UNCHANGED <<config, i, target, sidx, secret_response, log, started,
                   exit_status, otherVars>>

\* process_repository: the clone and push inside the scratch directory.
WorkflowStep ==
    /\ pc = "workflows"
    /\ \E o \in StageOutcomes :
         LET st == WorkflowStage(target, o)
         IN  /\ result' = [result EXCEPT !.workflows_pushed = st.workflows_pushed,
                                         !.errors = @ \o st.errors]
             /\ calls' = calls \o GitCalls(SelectSeq(st.cmds, IsClone))
    /\ pc' = "secrets"
    /\ sidx' = 1
    /\ UNCHANGED <<config, i, target, check, secret_response, log, started,
                   exit_status, otherVars>>

(***************************************************************************)
(* create_or_update_secret.  o gives what the collaborators answer:        *)
(*   key_status  the status of the public-key request                      *)
(*   seal        the sealed-box encryption raises nothing                  *)
(*   raised      the upsert request raises (no response)                   *)
(*   status      the status of the upsert response                         *)
(* The answer is "True", "False", or "exit" when encrypt_secret ends the   *)
(* process (sys.exit raises SystemExit, which "except Exception" does not  *)
(* catch), with the requests made.                                         *)
(***************************************************************************)
\* A collaborator that is not reached is listed once.
SecretOutcomes ==
    { o \in [key_status : KeyStatuses, seal : BOOLEAN, raised : BOOLEAN,
             status : SecretStatuses] :
        /\ o.key_status # 200 => o.seal
        /\ ~o.seal => ~o.raised
        /\ o.raised => o.status = 201
        /\ (o.key_status # 200 \/ ~o.seal) => o.status = 201 }

create_or_update_secret(secret_name, installed, o) ==
    LET key == Call("GET public-key", secret_name)
        put == Call("PUT secret", secret_name)
    IN  IF o.key_status # 200 THEN [ret |-> "False", calls |-> <<key>>]
        ELSE IF ~installed THEN [ret |-> "exit", calls |-> <<key>>]
        ELSE IF ~o.seal THEN [ret |-> "False", calls |-> <<key>>]
        ELSE IF o.raised THEN [ret |-> "False", calls |-> <<key, put>>]
        ELSE IF secret_response_ok(o.status)
             THEN [ret |-> "True", calls |-> <<key, put>>]
        ELSE [ret |-> "False", calls |-> <<key, put>>]

\* The test "if secret_value:" taken as "is not None".
attempted_unless_none(value) == value # "None"

attempted(value) == Truthy(value)

\* One pass of the secrets loop that returned: what it writes to the result.
record_secret(res, secret_name, value, success) ==
    IF attempted(value)
    THEN [res EXCEPT !.secrets_added = (secret_name :> success) @@ @,
                     !.errors = IF success THEN @
                                ELSE Append(@, Err("Failed to set secret",
                                                   secret_name))]
    ELSE [res EXCEPT !.secrets_added = (secret_name :> FALSE) @@ @]

\* process_repository: one pass of "for secret_name, secret_value in ...".
SecretStep ==
    /\ pc = "secrets"
    /\ sidx <= Len(SecretNames)
    /\ LET name == SecretNames[sidx]
           value == SECRETS_TO_ADD[name]
           next == IF sidx = Len(SecretNames) THEN "permissions" ELSE "secrets"
       IN  IF ~attempted(value)
           THEN /\ result' = record_secret(result, name, value, FALSE)
                /\ calls' = calls
                /\ secret_response' = secret_response
                /\ pc' = next
                /\ sidx' = sidx + 1
                /\ exit_status' = exit_status
           ELSE \E o \in SecretOutcomes :
                  LET r == create_or_update_secret(name, nacl_installed, o)
                  IN  /\ calls' = calls \o r.calls
                      /\ secret_response' =
                             [name |-> name, key_status |-> o.key_status,
                              seal |-> o.seal, raised |-> o.raised,
                              status |-> o.status]
                      /\ IF r.ret = "exit"
                         THEN /\ pc' = "exited"
                              /\ exit_status' = <<1>>
                              /\ UNCHANGED <<result, sidx>>
                         ELSE /\ result' = record_secret(result, name, value,
                                                         r.ret = "True")
                              /\ pc' = next
                              /\ sidx' = sidx + 1
                              /\ exit_status' = exit_status
    /\ UNCHANGED <<config, i, target, check, log, started, otherVars>>

\* process_repository: the permission update, the final status, the return.
PermissionStep ==
    /\ pc = "permissions"
    /\ \E raised \in BOOLEAN, status \in PermissionStatuses :
         LET success == ~raised /\ permissions_response_ok(status)
             errors == IF success THEN result.errors
                       ELSE Append(result.errors,
                                   Err("Failed to update workflow permissions", ""))
         IN  result' = [result EXCEPT !.permissions_updated = success,
                                      !.errors = errors,
                                      !.status = final_status(errors)]
    /\ calls' = Append(calls, Call("PUT permissions", ""))
    /\ pc' = "returned"
    /\ UNCHANGED <<config, i, target, sidx, check, secret_response, log, started,
                   exit_status, otherVars>>

\* main: results.append(result), the counter, the pause, the next iteration.
RecordResult ==
    /\ pc = "returned"
    /\ results' = Append(results, result)
    /\ successful_repos' = IF result.status = "success"
                           THEN successful_repos + 1 ELSE successful_repos
    /\ pauses' = IF i < Len(repo_urls) THEN Append(pauses, i) ELSE pauses
    /\ i' = i + 1
    /\ pc' = "loop"
    /\ calls' = <<>>
    /\ UNCHANGED <<config, target, result, sidx, check, secret_response, started,
                   exit_status, otherVars>>

\* main: the loop is exhausted, the summary is printed, the process ends.
Summary ==
    /\ pc = "loop"
    /\ i > Len(repo_urls)
    /\ pc' = "done"
    /\ exit_status' = <<0>>
    /\ UNCHANGED <<config, i, target, result, sidx, calls, check, secret_response,
                   log, started, otherVars>>

Next ==
    \/ TokenCheck
    \/ ValidateWorkflowsDir
    \/ CallProcessRepository
    \/ ExtractStep
    \/ CheckStep
    \/ WorkflowStep
    \/ SecretStep
    \/ PermissionStep
    \/ RecordResult
    \/ Summary

Spec == Init /\ [][Next]_vars

(***************************************************************************)
(* SpecRepo: main over a single reference, with more secrets configured.   *)
(***************************************************************************)
InitRepo ==
    /\ pc = "import"
    /\ GITHUB_TOKEN \in BOOLEAN
    /\ workflows_dir \in BOOLEAN
    /\ nacl_installed \in BOOLEAN
    /\ repo_urls \in [1..1 -> UrlSamples]
    /\ SECRETS_TO_ADD \in [FirstNames(MaxSecretsOne) -> SecretValues]
    /\ i = 1
    /\ target = ValueError
    /\ result = NoResult
    /\ sidx = 1
    /\ calls = <<>>
    /\ check = NoCheck
    /\ secret_response = NoResponse
    /\ results = <<>>
    /\ successful_repos = 0
    /\ started = <<>>
    /\ pauses = <<>>
    /\ exit_status = <<>>
    /\ InitLocatorIdle /\ InitBranchIdle /\ InitPushIdle

SpecRepo == InitRepo /\ [][Next]_vars

(***************************************************************************)
(* SpecLocator: extract_repo_info applied to every reference of at most    *)
(* MaxTokens tokens.                                                       *)
(***************************************************************************)
MaxTokens == 5

TokenSeqs == UNION {[1..n -> Tokens] : n \in 0..MaxTokens}

InitMainIdle ==
    /\ pc = "idle"
    /\ GITHUB_TOKEN = TRUE
    /\ workflows_dir = TRUE
    /\ nacl_installed = TRUE
    /\ repo_urls = <<>>
    /\ SECRETS_TO_ADD = <<>>
    /\ i = 1
    /\ target = ValueError
    /\ result = NoResult
    /\ sidx = 1
    /\ calls = <<>>
    /\ check = NoCheck
    /\ secret_response = NoResponse
    /\ results = <<>>
    /\ successful_repos = 0
    /\ started = <<>>
    /\ pauses = <<>>
    /\ exit_status = <<>>

InitLocator ==
    /\ loc_url \in {SpellAll(t) : t \in TokenSeqs}
    /\ loc_result = ValueError
    /\ loc_pc = "call"
    /\ InitMainIdle /\ InitBranchIdle /\ InitPushIdle

Locate ==
    /\ loc_pc = "call"
    /\ loc_result' = extract_repo_info(loc_url)
    /\ loc_pc' = "returned"
    /\ UNCHANGED <<loc_url, mainVars, brVars, pushVars>>

NextLocator == Locate

SpecLocator == InitLocator /\ [][NextLocator]_vars

(***************************************************************************)
(* SpecBranch: get_default_branch applied to every outcome of its probes.  *)
(***************************************************************************)
BranchNames == {"", "main", "master", "dev"}

HeadRefs ==
    { <<"refs", "remotes", "origin", "main">>,
      <<"refs", "remotes", "origin", "dev">>,
      <<"refs", "remotes", "origin", "feature", "x">> }

Probes ==
    [current : [ok : BOOLEAN, out : BranchNames],
     head : [ok : BOOLEAN, ref : HeadRefs],
     main : BOOLEAN, master : BOOLEAN]

InitBranch ==
    /\ br_probe \in Probes
    /\ br_result = ""
    /\ br_pc = "call"
    /\ InitMainIdle /\ InitLocatorIdle /\ InitPushIdle

ResolveBranch ==
    /\ br_pc = "call"
    /\ br_result' = get_default_branch(br_probe)
    /\ br_pc' = "returned"
    /\ UNCHANGED <<br_probe, mainVars, locVars, pushVars>>

NextBranch == ResolveBranch

SpecBranch == InitBranch /\ [][NextBranch]_vars

(***************************************************************************)
(* SpecPush: the workflow stage run twice in succession against one remote *)
(* repository, nobody else pushing in between.  A tree gives, for each     *)
(* file name of the workflows directory, the version of its content, 0 for *)
(* "no such file".  The remote is the branch its HEAD names.               *)
(***************************************************************************)
MaxVersion == 2

Versions == 0..MaxVersion

Files == {<<"ci", "yml">>, <<"build", "yaml">>, <<"notes", "txt">>}

\* workflow_file.endswith('.yml') or workflow_file.endswith('.yaml')
IsWorkflowFile(f) == f[2] \in {"yml", "yaml"}

\* The copy loop of push_workflows over os.listdir(workflows_source).
CopyWorkflows(src, tree) ==
    [f \in Files |-> IF src[f] # 0 /\ IsWorkflowFile(f) THEN src[f] ELSE tree[f]]

\* What the probes of get_default_branch answer in a fresh clone of a remote
\* whose HEAD names branch head: that branch is checked out and is the only
\* local one.  show_current: git knows "branch --show-current".
FreshCloneProbe(head, show_current) ==
    [current |-> [ok |-> show_current, out |-> head],
     head |-> [ok |-> TRUE, ref |-> <<"refs", "remotes", "origin", head>>],
     main |-> head = "main", master |-> head = "master"]

\* What the environment does to one run of the stage: which steps succeed,
\* whether git knows "branch --show-current", whether the network lets the
\* push through.  A step behind a failed one is listed once, as succeeding.
PushEnv ==
    { e \in [clone : BOOLEAN, copy : BOOLEAN, add : BOOLEAN, commit : BOOLEAN,
             show_current : BOOLEAN, net : BOOLEAN] :
        /\ ~e.clone => e.copy
        /\ ~e.copy => e.add
        /\ ~e.add => e.commit
        /\ ~e.commit => (e.show_current /\ e.net) }

\* The repository the two runs work on.
PushTarget == extract_repo_info(SpellAll(<<"H", "a", "/", "b">>))

InitPush ==
    /\ remote \in [head : {"main", "master"}, tree : [Files -> Versions]]
    /\ source \in [Files -> Versions]
    /\ run = 1
    /\ runs = <<>>
    /\ InitMainIdle /\ InitLocatorIdle /\ InitBranchIdle

RunWorkflowStage ==
    /\ run <= 2
    /\ \E e \in PushEnv :
         LET local == remote.tree
             copied == CopyWorkflows(source, local)
             branch == get_default_branch(FreshCloneProbe(remote.head,
                                                          e.show_current))
             o == [clone |-> e.clone, copy |-> e.copy, add |-> e.add,
                   diff_empty |-> copied = local, commit |-> e.commit,
                   push |-> e.net /\ branch = remote.head]
             st == WorkflowStage(PushTarget, o)
             pushed == st.workflows_pushed /\ Last(st.cmds) = "push"
             after == IF pushed THEN [remote EXCEPT !.tree = copied] ELSE remote
         IN  /\ remote' = after
             /\ runs' = Append(runs, [workflows_pushed |-> st.workflows_pushed,
                                      errors |-> st.errors, cmds |-> st.cmds,
                                      before |-> remote, after |-> after])
    /\ run' = run + 1
    /\ UNCHANGED <<source, mainVars, locVars, brVars>>

NextPush == RunWorkflowStage

SpecPush == InitPush /\ [][NextPush]_vars

(***************************************************************************)
(* Vocabulary of the properties.                                           *)
(***************************************************************************)
\* The existence check was answered 200 / was answered something else.
Reachable == check.called /\ ~check.raised /\ check.status = 200
Unreachable == check.called /\ ~check.raised /\ check.status # 200

\* Startup validation passed.
Validated == GITHUB_TOKEN /\ workflows_dir

CountCalls(op, arg) ==
    Cardinality({k \in 1..Len(calls) : calls[k] = Call(op, arg)})

Configured == DOMAIN SECRETS_TO_ADD
Empty(value) == value \in {"None", ""}

Recorded(n) == n \in DOMAIN result.secrets_added

ErrorsFor(n) ==
    Cardinality({k \in 1..Len(result.errors) :
                   result.errors[k] = Err("Failed to set secret", n)})

\* Every secret with a value was attempted once, and so was the permission
\* update.
SecretsAndPermissionsAttempted ==
    /\ \A n \in Configured :
         ~Empty(SECRETS_TO_ADD[n]) => CountCalls("GET public-key", n) = 1
    /\ CountCalls("PUT permissions", "") = 1

Upto(n) == [k \in 1..n |-> k]

EveryRepositoryOnce ==
    /\ started = Upto(Len(repo_urls))
    /\ Len(results) = Len(repo_urls)
    /\ \A k \in 1..Len(results) : results[k].repo = repo_urls[k]
    /\ pauses = Upto(Len(repo_urls) - 1)

(***************************************************************************)
(* C1.  The status process_repository returns.                             *)
(***************************************************************************)
\* C1 as stated: the returned status is "error" iff the existence check
\* fails, "success" iff the repository is reachable and errors is empty,
\* "partial" otherwise.
C1_StatusAsStated ==
    pc = "returned" =>
      /\ result.status \in {"error", "success", "partial"}
      /\ (result.status = "error") <=> (check.called /\ ~Reachable)
      /\ (result.status = "success") <=> (Reachable /\ result.errors = <<>>)

\* C1 amended: the returned status is "error" iff parsing the reference
\* fails or the existence check fails (a response other than 200, or an
\* exception), "success" iff the repository is reachable and errors is
\* empty, "partial" otherwise.
C1_Status ==
    pc = "returned" =>
      LET parsed == extract_repo_info(repo_urls[i]).kind = "pair"
      IN  /\ result.status \in {"error", "success", "partial"}
          /\ (result.status = "error") <=> (~parsed \/ (check.called /\ ~Reachable))
          /\ (result.status = "success") <=> (Reachable /\ result.errors = <<>>)

\* A reachable repository returned with recorded errors.
C1_Witness == pc = "returned" /\ Reachable /\ result.status = "partial"

(***************************************************************************)
(* C2.  The three stages of a reachable repository.                        *)
(***************************************************************************)
\* C2: for a reachable repository, whatever the workflow stage and the
\* secret uploads did, every secret with a value is attempted and the
\* permission update is attempted exactly once by the time the call is over
\* (it returned, or the process ended inside it).
C2_StagesIndependent ==
    (Reachable /\ pc \in {"returned", "exited"}) => SecretsAndPermissionsAttempted

\* What holds of C2: the same, of the calls that return.
C2_WhenReturned == (Reachable /\ pc = "returned") => SecretsAndPermissionsAttempted

(***************************************************************************)
(* C3.  An unreachable repository.                                         *)
(***************************************************************************)
\* C3: when the existence check is answered with a status other than 200,
\* process_repository returns the "error" result with the message
\* "Repository not found or not accessible", and the existence check is the
\* only request or clone it made.
C3_UnreachableStops ==
    (pc = "returned" /\ Unreachable) =>
      /\ result = ErrorResult(repo_urls[i], "Repository not found or not accessible")
      /\ calls = <<Call("GET repo", "")>>

\* The second repository of the list was answered 403 and has returned.
C3_Witness == pc = "returned" /\ Unreachable /\ check.status = 403 /\ i = 2

(***************************************************************************)
(* C4.  main runs to completion.                                           *)
(***************************************************************************)
\* C4: once startup validation has passed, the process ends only after the
\* summary, with status zero and every repository processed.
C4_CompletesWithZero ==
    (Validated /\ pc \in {"done", "exited"}) =>
      /\ pc = "done"
      /\ exit_status = <<0>>
      /\ Len(results) = Len(repo_urls)

(***************************************************************************)
(* C5.  Every repository once, in order, with the pauses in between.       *)
(***************************************************************************)
\* C5: in every run that passed startup validation, when the process ends
\* each repository was processed exactly once in list order, the result log
\* holds its entry at its position, and the pause ran once after each
\* repository but the last.
C5_EachOnceInOrder ==
    (Validated /\ pc \in {"done", "exited"}) => EveryRepositoryOnce

\* What holds of C5: the same, of the runs that reach the summary.
C5_WhenCompleted == pc = "done" => EveryRepositoryOnce

(***************************************************************************)
(* C6.  A secret with no value.                                            *)
(***************************************************************************)
\* C6: for a secret whose configured value is empty or absent, no public-key
\* request and no upload is ever made; once the loop is past it, it is
\* recorded as not added with no error entry; and a repository that returns
\* with the workflows pushed, the permissions updated and no secret missing
\* but the skipped ones has status "success".
C6_SkippedSecret ==
    /\ \A n \in Configured :
         Empty(SECRETS_TO_ADD[n]) =>
           /\ CountCalls("GET public-key", n) = 0
           /\ CountCalls("PUT secret", n) = 0
           /\ (Reachable /\ \E k \in 1..Len(SecretNames) :
                               SecretNames[k] = n /\ k < sidx)
                 => (Recorded(n) /\ ~result.secrets_added[n] /\ ErrorsFor(n) = 0)
           /\ (Reachable /\ pc = "returned") => Recorded(n)
    /\ ( /\ Reachable /\ pc = "returned"
         /\ result.workflows_pushed /\ result.permissions_updated
         /\ \A n \in Configured :
              ~result.secrets_added[n] => Empty(SECRETS_TO_ADD[n]) )
       => result.status = "success"

\* A repository returned "success" with one secret skipped and one uploaded.
C6_Witness ==
    /\ pc = "returned" /\ Reachable /\ result.status = "success"
    /\ \E n \in Configured : Empty(SECRETS_TO_ADD[n])
    /\ \E n \in Configured : result.secrets_added[n]

(***************************************************************************)
(* C7.  A secret with a value.                                             *)
(***************************************************************************)
\* The upsert was answered 201 or 204.
Accepted(r) ==
    r.key_status = 200 /\ r.seal /\ ~r.raised /\ r.status \in {201, 204}

\* Each recorded secret with a value is recorded as added exactly when its
\* upsert was answered 201 or 204, and has one error entry exactly when it
\* is recorded as not added.
RecordedAsAnswered ==
    Reachable =>
      \A n \in Configured :
        (~Empty(SECRETS_TO_ADD[n]) /\ Recorded(n)) =>
          /\ secret_response.name = n
               => (result.secrets_added[n] <=> Accepted(secret_response))
          /\ ErrorsFor(n) = IF result.secrets_added[n] THEN 0 ELSE 1

\* C7: a secret with a value is recorded as added exactly when the upsert
\* is answered 201 or 204, and as not added with one error entry otherwise;
\* and once a secret is recorded either way, every later secret with a value
\* is attempted by the time the call is over.
C7_RecordedAndContinues ==
    /\ RecordedAsAnswered
    /\ (Reachable /\ pc \in {"returned", "exited"}) =>
         \A j, k \in 1..Len(SecretNames) :
           ( /\ j < k
             /\ ~Empty(SECRETS_TO_ADD[SecretNames[j]]) /\ Recorded(SecretNames[j])
             /\ ~Empty(SECRETS_TO_ADD[SecretNames[k]]) )
           => CountCalls("GET public-key", SecretNames[k]) = 1

\* What holds of C7: the recording, and the later secrets in the calls that
\* return.
C7_WhenReturned ==
    /\ RecordedAsAnswered
    /\ (Reachable /\ pc = "returned") =>
         \A n \in Configured :
           ~Empty(SECRETS_TO_ADD[n]) => CountCalls("GET public-key", n) = 1

(***************************************************************************)
(* C8.  The workflow stage run twice.                                      *)
(***************************************************************************)
Ran(r, cmd) == \E k \in 1..Len(r.cmds) : r.cmds[k] = cmd

Pushed(r) == r.workflows_pushed /\ Ran(r, "push")

\* The run found nothing staged, committed and pushed nothing, left the
\* remote as it was and reported success.
NothingToDo(r) ==
    /\ Ran(r, "diff") /\ ~Ran(r, "commit") /\ ~Ran(r, "push")
    /\ r.after = r.before
    /\ r.workflows_pushed /\ r.errors = <<>>

\* C8 as stated: after a run whose push succeeded, the next run finds an
\* empty staged diff, commits and pushes nothing, leaves the remote branch
\* unchanged and reports success.
C8_IdempotentAsStated ==
    \A k \in 1..(Len(runs) - 1) : Pushed(runs[k]) => NothingToDo(runs[k + 1])

\* C8 amended: the same, of a next run whose own clone, copy and staging
\* succeed (it gets as far as the staged diff).
C8_Idempotent ==
    \A k \in 1..(Len(runs) - 1) :
      (Pushed(runs[k]) /\ Ran(runs[k + 1], "diff")) => NothingToDo(runs[k + 1])

\* A run pushed a change and the next run got as far as the staged diff.
C8_Witness ==
    /\ Len(runs) = 2
    /\ Pushed(runs[1]) /\ runs[1].after # runs[1].before
    /\ Ran(runs[2], "diff")

(***************************************************************************)
(* C9.  Malformed references.                                              *)
(***************************************************************************)
\* A reference is well formed when, the optional ".git" suffix and then the
\* known prefix stripped, the rest splits on "/" into exactly two non-empty
\* segments.
WellFormed(url) ==
    LET u == IF EndsWith(url, GitSuffix) THEN SubSeq(url, 1, Len(url) - 1) ELSE url
        prefix == IF StartsWith(u, HttpsPrefix) THEN HttpsPrefix
                  ELSE IF StartsWith(u, SshPrefix) THEN SshPrefix
                  ELSE <<>>
        segments == Split(SubSeq(u, Len(prefix) + 1, Len(u)))
    IN  /\ prefix # <<>>
        /\ Len(segments) = 2
        /\ segments[1] # <<>>
        /\ segments[2] # <<>>

\* C9: extract_repo_info answers ValueError for every malformed reference.
C9_MalformedRejected ==
    (loc_pc = "returned" /\ ~WellFormed(loc_url)) => loc_result = ValueError

\* What holds of C9: an unknown prefix is rejected, and a well-formed
\* reference is parsed to its two segments.
C9_UnknownPrefixRejected ==
    loc_pc = "returned" =>
      /\ (~StartsWith(loc_url, HttpsPrefix) /\ ~StartsWith(loc_url, SshPrefix))
           => loc_result = ValueError
      /\ WellFormed(loc_url) => loc_result.kind = "pair"

(***************************************************************************)
(* C10.  The default branch.                                               *)
(***************************************************************************)
\* The priority order of the claim.
ByPriority(p) ==
    IF p.current.ok /\ p.current.out # "" THEN p.current.out
    ELSE IF p.head.ok THEN Last(p.head.ref)
    ELSE IF p.main THEN "main"
    ELSE IF p.master THEN "master"
    ELSE "main"

\* C10: for every outcome of the probes, get_default_branch answers the
\* source of highest priority that is available.
C10_Priority == br_pc = "returned" => br_result = ByPriority(br_probe)

\* What holds of C10: the same, when "git branch --show-current" exits zero.
C10_WhenShowCurrentWorks ==
    (br_pc = "returned" /\ br_probe.current.ok) => br_result = ByPriority(br_probe)

====
